---- MODULE Spec2Model ----
(***************************************************************************)
(* The cart service of src/src/services/user.service.js (getCartByUser,   *)
(* addProductToCart, updateProductInCart, deleteProductFromCart,          *)
(* checkout) run by concurrent requests against the document store.       *)
(*                                                                         *)
(* A request suspends at every awaited store call and nowhere else, so    *)
(* one action is the code between two awaits.  A save() that the code     *)
(* does not await is a write in flight: it reaches the store at any later *)
(* moment, also after the call has returned.                              *)
(*                                                                         *)
(* Document.save() sends only what the document changed: a push on an     *)
(* array is a $push, an assignment is a $set.  A $set of an array or of   *)
(* an array element carries the version (__v) the document was loaded     *)
(* with and is rejected (VersionError) when the stored version moved; a   *)
(* $push and a whole-array $set advance the stored version.               *)
(***************************************************************************)
EXTENDS Integers, Sequences, FiniteSets, Bags

\* ---------------------------------------------------------------- bounds
MaxCalls == 3          \* service calls started in one behaviour
MaxQty == 2            \* quantities a request may ask for: 1..MaxQty
Slots == {1, 2}        \* requests that can be in progress at once
Emails == {"u1"}       \* registered users
InitWallets == {200, 300}
SignupEmails == {"u1", "u2"}   \* emails createUser is called with

\* -------------------------------------------------------------- the data
default_address == "ADDRESS_NOT_SET"
Addresses == {default_address, "12 Main St"}

\* the product catalog: read-only for the cart service
Catalog == { [_id |-> "A", cost |-> 100], [_id |-> "B", cost |-> 50] }
ProductIds == {"A", "B", "X"}      \* "X" resolves to no product

NoProduct == [_id |-> "none", cost |-> 0]
NoCart == [id |-> 0, cartItems |-> <<>>, v |-> 0]
NoItem == [product |-> NoProduct, quantity |-> 0]

Ops == {"getCart", "add", "update", "delete", "checkout"}

VARIABLES
  users,     \* User collection: email -> [walletMoney, address]
  carts,     \* Cart collection: sequence of [email, cartItems, v]; _id = position
  req,       \* per request slot: position, arguments, local documents, result
  inflight,  \* bag of the cart saves started without await that have not reached
             \* the store
  nCalls,    \* calls started so far
  newUsers,  \* User collection, the documents createUser has added: sequence of
             \* [email]
  added      \* history: email -> product id -> quantity of the last successful
             \* add not followed by a delete/update/checkout call (0: none)

vars == <<users, carts, req, inflight, nCalls, newUsers, added>>

\* ------------------------------------------------------- pure functions

\* mutant: findOne never finds the cart
CartFindOneNull(email) == 0

\* Cart.findOne({email}): the first cart of that email, 0 for null
CartFindOne(email) ==
  LET hits == {i \in 1..Len(carts) : carts[i].email = email}
  IN IF hits = {} THEN 0 ELSE CHOOSE i \in hits : \A j \in hits : i <= j

\* the document findOne hands to the caller
CartDoc(i) ==
  IF i = 0 THEN NoCart
  ELSE [id |-> i, cartItems |-> carts[i].cartItems, v |-> carts[i].v]

\* mutant: findById never answers null
ProductFindByIdNeverNull(productId) ==
  IF \E p \in Catalog : p._id = productId
  THEN CHOOSE p \in Catalog : p._id = productId
  ELSE CHOOSE p \in Catalog : TRUE

\* Product.findById(productId): the product, NoProduct for null
ProductFindById(productId) ==
  IF \E p \in Catalog : p._id = productId
  THEN CHOOSE p \in Catalog : p._id = productId
  ELSE NoProduct

\* cartItems.some(item => item.product._id.equals(productId))
ItemExists(cartItems, productId) ==
  \E i \in 1..Len(cartItems) : cartItems[i].product._id = productId

\* mutant: the search takes the first line item, whatever its product
ItemFindIndexAny(cartItems, productId) == IF cartItems = <<>> THEN 0 ELSE 1

\* cartItems.findIndex(...): first matching position, 0 for -1
ItemFindIndex(cartItems, productId) ==
  LET hits == {i \in 1..Len(cartItems) : cartItems[i].product._id = productId}
  IN IF hits = {} THEN 0 ELSE CHOOSE i \in hits : \A j \in hits : i <= j

\* mutant: splice(index) without the count removes to the end
SpliceToEnd(cartItems, index) == [i \in 1..(index - 1) |-> cartItems[i]]

\* cartItems.splice(index, 1)
Splice(cartItems, index) ==
  [i \in 1..(Len(cartItems) - 1) |->
     IF i < index THEN cartItems[i] ELSE cartItems[i + 1]]

\* mutant: the total forgets the quantity
RECURSIVE TotalCostNoQuantity(_)
TotalCostNoQuantity(cartItems) ==
  IF cartItems = <<>> THEN 0
  ELSE cartItems[1].product.cost + TotalCostNoQuantity(Tail(cartItems))

\* let totalCost = 0; cartItems.forEach(item => totalCost += item.product.cost * item.quantity)
RECURSIVE TotalCost(_)
TotalCost(cartItems) ==
  IF cartItems = <<>> THEN 0
  ELSE cartItems[1].product.cost * cartItems[1].quantity + TotalCost(Tail(cartItems))

\* mutant: the guard reads !(length === 0) and rejects a cart that has line items
LengthGuardOnLength(cartItems) == ~(Len(cartItems) = 0)

\* if(!userCart.cartItems.length === 0): "!" yields a boolean, and a boolean is
\* never strictly equal to the number 0, for an empty and for a non-empty cart
LengthGuard(cartItems) ==
  LET negated == (Len(cartItems) = 0)      \* !length
  IN  negated \notin BOOLEAN               \* negated === 0

\* mutant: the empty-cart check is missing
CartNeverEmpty(cartItems) == FALSE

\* userCart.cartItems.length === 0
CartIsEmpty(cartItems) == Len(cartItems) = 0

\* user.hasSetNonDefaultAddress(), a method of the User model: the address differs
\* from the default sentinel
hasSetNonDefaultAddress(user) == user.address # default_address

\* mutant: the address checks are missing
AddressNotChecked(user) == TRUE

\* checkout's two address checks: the helper, then user.address === config.default_address
AddressIsSet(user) ==
  /\ hasSetNonDefaultAddress(user)
  /\ ~(user.address = default_address)

\* mutant: the balance check is missing
BalanceNotChecked(walletMoney, totalCost) == FALSE

\* mutant: the balance check is <= instead of <
BalanceCheckedStrictly(walletMoney, totalCost) == walletMoney <= totalCost

\* user.walletMoney < totalCost
InsufficientBalance(walletMoney, totalCost) == walletMoney < totalCost

\* let currMoney = user.walletMoney - totalCost
CurrMoney(walletMoney, totalCost) == walletMoney - totalCost

\* mutant: Cart.email has no unique index
EmailNeverTaken(email) == FALSE

\* the unique index on Cart.email: Cart.create is rejected for a taken email
EmailTaken(email) == \E i \in 1..Len(carts) : carts[i].email = email

\* the HTTP status of a result
StatusOf(result) ==
  CASE result = "ok" -> 200
    [] result = "NoCart404" -> 404
    [] result \in {"BadRequest", "AlreadyInCart", "ProductNotFound", "NoCart400",
                   "NotInCart", "EmptyCart", "NoAddress", "InsufficientBalance"} -> 400
    [] result = "EmailAlreadyTaken" -> 200       \* httpStatus.OK
    [] OTHER -> 500      \* CreateFailed, VersionError, StoreError, DuplicateKey

\* -------------------------------------------------------------- requests
IdleReq ==
  [pc |-> "idle", op |-> "none", email |-> "none", productId |-> "none",
   quantity |-> 0, user |-> [walletMoney |-> 0, address |-> default_address],
   userCart |-> NoCart, totalCost |-> 0, result |-> "none",
   solo |-> TRUE, seen |-> [walletMoney |-> 0, cartItems |-> <<>>, hasCart |-> FALSE],
   wroteUser |-> FALSE, wroteCart |-> FALSE, prior |-> 0, isExist |-> FALSE]

Running(t) == req[t].pc \notin {"idle", "done"}

\* request s moves to record r.  History: solo of a request says that no other
\* request and no save in flight has taken a step since the request started
Step(s, r) ==
  [t \in Slots |->
     IF t = s THEN r
     ELSE IF req[t].pc # "idle" THEN [req[t] EXCEPT !.solo = FALSE] ELSE req[t]]

\* history: what request s had read when Cart.findOne returned cart i
Seen(s, i) ==
  [walletMoney |-> req[s].user.walletMoney,
   cartItems |-> IF i = 0 THEN <<>> ELSE carts[i].cartItems,
   hasCart |-> i # 0]

Done(s, result) == [req[s] EXCEPT !.pc = "done", !.result = result]

\* what userCart.save() of request s sends: a $push of item, a $set of the quantity
\* of the element at index, or a $set of the whole array; v is the version the
\* document was loaded with
Save(s, kind, index, item, cartItems) ==
  [id |-> req[s].userCart.id, v |-> req[s].userCart.v,
   kind |-> kind, index |-> index, item |-> item, cartItems |-> cartItems]

PersistedItems(email) ==
  IF CartFindOne(email) = 0 THEN <<>> ELSE carts[CartFindOne(email)].cartItems

NoneAdded == [p \in ProductIds |-> 0]

Init ==
  /\ users \in [Emails -> [walletMoney : InitWallets, address : Addresses]]
  /\ carts = <<>>
  /\ req = [s \in Slots |-> IdleReq]
  /\ inflight = EmptyBag
  /\ nCalls = 0
  /\ newUsers = <<>>
  /\ added = [e \in Emails |-> NoneAdded]

\* The caller has loaded the authenticated user (getUserById) and calls an operation
\* of the cart service with it.
Start(s) ==
  /\ ~Running(s)
  /\ \A t \in Slots : t < s => Running(t)     \* the first free slot takes the call
  /\ nCalls < MaxCalls
  /\ \E e \in Emails, op \in Ops, productId \in ProductIds, quantity \in 1..MaxQty :
       /\ op \in {"getCart", "checkout"} => productId = "A" /\ quantity = 1
       /\ op = "delete" => quantity = 1
       /\ req' = Step(s, [IdleReq EXCEPT
                   !.pc = "findCart", !.op = op, !.email = e,
                   !.productId = IF op \in {"getCart", "checkout"} THEN "none" ELSE productId,
                   !.quantity = IF op \in {"add", "update"} THEN quantity ELSE 0,
                   !.user = users[e],
                   !.prior = IF op = "add" THEN added[e][productId] ELSE 0])
       /\ added' = IF op \in {"update", "delete", "checkout"}
                   THEN [added EXCEPT ![e] = NoneAdded] ELSE added
  /\ nCalls' = nCalls + 1
  /\ UNCHANGED <<users, carts, inflight, newUsers>>

\* getCartByUser: Cart.findOne, 404 when there is none
GetCartByUser(s) ==
  /\ req[s].pc = "findCart" /\ req[s].op = "getCart"
  /\ LET i == CartFindOne(req[s].email) IN
       req' = Step(s, IF i = 0 THEN [Done(s, "NoCart404") EXCEPT !.seen = Seen(s, i)]
                      ELSE [Done(s, "ok") EXCEPT !.userCart = CartDoc(i),
                                                 !.seen = Seen(s, i)])
  /\ UNCHANGED <<users, carts, inflight, nCalls, added, newUsers>>

\* addProductToCart after the cart is in hand: the length guard and the duplicate check
AddChecks(s, doc) ==
  IF LengthGuard(doc.cartItems) THEN [Done(s, "BadRequest") EXCEPT !.userCart = doc]
  ELSE IF ItemExists(doc.cartItems, req[s].productId)
  THEN [Done(s, "AlreadyInCart") EXCEPT !.userCart = doc]
  ELSE [req[s] EXCEPT !.pc = "findProduct", !.userCart = doc]

\* addProductToCart: await Cart.findOne
AddFindCart(s) ==
  /\ req[s].pc = "findCart" /\ req[s].op = "add"
  /\ LET i == CartFindOne(req[s].email) IN
       req' = Step(s, [(IF i = 0 THEN [req[s] EXCEPT !.pc = "createCart"]
                        ELSE AddChecks(s, CartDoc(i))) EXCEPT !.seen = Seen(s, i)])
  /\ UNCHANGED <<users, carts, inflight, nCalls, added, newUsers>>

\* addProductToCart: await Cart.create({email, cartItems: [], paymentOption})
AddCreateCart(s) ==
  /\ req[s].pc = "createCart"
  /\ IF EmailTaken(req[s].email)
     THEN /\ req' = Step(s, Done(s, "CreateFailed"))
          /\ carts' = carts
     ELSE /\ carts' = Append(carts, [email |-> req[s].email, cartItems |-> <<>>, v |-> 0])
          /\ req' = Step(s, [req[s] EXCEPT !.pc = "saveNewCart",
                               !.userCart = [id |-> Len(carts) + 1, cartItems |-> <<>>,
                                             v |-> 0]])
  /\ UNCHANGED <<users, inflight, nCalls, added, newUsers>>

\* addProductToCart: await userCart.save() of the cart just created (nothing to
\* send), then the checks
AddSaveNewCart(s) ==
  /\ req[s].pc = "saveNewCart"
  /\ req' = Step(s, AddChecks(s, req[s].userCart))
  /\ UNCHANGED <<users, carts, inflight, nCalls, added, newUsers>>

\* addProductToCart: await Product.findById, push, save() without await, return
AddFindProduct(s) ==
  /\ req[s].pc = "findProduct" /\ req[s].op = "add"
  /\ LET product == ProductFindById(req[s].productId)
         item == [product |-> product, quantity |-> req[s].quantity]
     IN IF product = NoProduct
        THEN /\ req' = Step(s, Done(s, "ProductNotFound"))
             /\ UNCHANGED <<inflight, added, newUsers>>
        ELSE /\ req' = Step(s, [Done(s, "ok") EXCEPT
                              !.userCart.cartItems = Append(@, item),
                              !.wroteCart = TRUE])
             /\ inflight' = inflight (+) SetToBag({Save(s, "push", 0, item, <<>>)})
             /\ added' = [added EXCEPT ![req[s].email][req[s].productId] =
                            req[s].quantity]
  /\ UNCHANGED <<users, carts, nCalls, newUsers>>

\* updateProductInCart: await Cart.findOne
UpdateFindCart(s) ==
  /\ req[s].pc = "findCart" /\ req[s].op = "update"
  /\ LET i == CartFindOne(req[s].email) IN
       req' = Step(s, IF i = 0 THEN [Done(s, "NoCart400") EXCEPT !.seen = Seen(s, i)]
                      ELSE [req[s] EXCEPT !.pc = "findProduct", !.userCart = CartDoc(i),
                                          !.seen = Seen(s, i)])
  /\ UNCHANGED <<users, carts, inflight, nCalls, added, newUsers>>

\* updateProductInCart: await Product.findById, find the line item, set its
\* quantity, save() without await, return
UpdateFindProduct(s) ==
  /\ req[s].pc = "findProduct" /\ req[s].op = "update"
  /\ LET product == ProductFindById(req[s].productId)
         index == ItemFindIndex(req[s].userCart.cartItems, req[s].productId)
     IN IF product = NoProduct
        THEN req' = Step(s, Done(s, "ProductNotFound")) /\ inflight' = inflight
        ELSE IF index = 0
        THEN req' = Step(s, Done(s, "NotInCart")) /\ inflight' = inflight
        ELSE /\ req' = Step(s, [Done(s, "ok") EXCEPT
                              !.userCart.cartItems[index].quantity = req[s].quantity,
                              !.wroteCart = TRUE])
             /\ inflight' = inflight (+) SetToBag(
                  {Save(s, "setQuantity", index,
                        [product |-> product, quantity |-> req[s].quantity], <<>>)})
  /\ UNCHANGED <<users, carts, nCalls, added, newUsers>>

\* deleteProductFromCart: await Cart.findOne, findIndex, splice, save() without
\* await, return
DeleteProductFromCart(s) ==
  /\ req[s].pc = "findCart" /\ req[s].op = "delete"
  /\ LET i == CartFindOne(req[s].email)
         doc == CartDoc(i)
         index == ItemFindIndex(doc.cartItems, req[s].productId)
     IN IF i = 0
        THEN req' = Step(s, [Done(s, "NoCart400") EXCEPT !.seen = Seen(s, i)])
             /\ inflight' = inflight
        ELSE IF index = 0
        THEN req' = Step(s, [Done(s, "NotInCart") EXCEPT !.userCart = doc,
                                                         !.seen = Seen(s, i)])
             /\ inflight' = inflight
        ELSE /\ req' = Step(s, [Done(s, "ok") EXCEPT
                              !.userCart = [doc EXCEPT
                                 !.cartItems = Splice(doc.cartItems, index)],
                              !.seen = Seen(s, i), !.wroteCart = TRUE])
             /\ inflight' = inflight (+) SetToBag(
                  {[id |-> i, v |-> doc.v, kind |-> "setArray",
                    index |-> 0, item |-> NoItem,
                    cartItems |-> Splice(doc.cartItems, index)]})
  /\ UNCHANGED <<users, carts, nCalls, added, newUsers>>

\* checkout: await Cart.findOne, the validations, the total, the balance check, and
\* the debit of the user document in memory
CheckoutFindCart(s) ==
  /\ req[s].pc = "findCart" /\ req[s].op = "checkout"
  /\ LET i == CartFindOne(req[s].email)
         doc == CartDoc(i)
         totalCost == TotalCost(doc.cartItems)
         user == req[s].user
     IN req' = Step(s, [(
          IF i = 0 THEN Done(s, "NoCart404")
          ELSE IF CartIsEmpty(doc.cartItems)
          THEN [Done(s, "EmptyCart") EXCEPT !.userCart = doc]
          ELSE IF ~AddressIsSet(user)
          THEN [Done(s, "NoAddress") EXCEPT !.userCart = doc]
          ELSE IF InsufficientBalance(user.walletMoney, totalCost)
          THEN [Done(s, "InsufficientBalance") EXCEPT
                  !.userCart = doc, !.totalCost = totalCost]
          ELSE [req[s] EXCEPT !.pc = "saveUser", !.userCart = doc,
                  !.totalCost = totalCost,
                  !.user.walletMoney = CurrMoney(user.walletMoney, totalCost)])
          EXCEPT !.seen = Seen(s, i)])
  /\ UNCHANGED <<users, carts, inflight, nCalls, added, newUsers>>

\* checkout: await user.save() sends the new walletMoney
CheckoutSaveUser(s) ==
  /\ req[s].pc = "saveUser"
  /\ users' = [users EXCEPT ![req[s].email].walletMoney = req[s].user.walletMoney]
  /\ req' = Step(s, [req[s] EXCEPT !.pc = "saveCart", !.wroteUser = TRUE])
  /\ UNCHANGED <<carts, inflight, nCalls, added, newUsers>>

\* mutant: checkout removes the cart document instead of emptying it
CheckoutDeletesCart(s) ==
  /\ req[s].pc = "saveCart"
  /\ LET id == req[s].userCart.id IN
       /\ carts' = SubSeq(carts, 1, id - 1) \o SubSeq(carts, id + 1, Len(carts))
       /\ req' = Step(s, [Done(s, "ok") EXCEPT
                            !.userCart.cartItems = <<>>, !.wroteCart = TRUE])
  /\ UNCHANGED <<users, inflight, nCalls, added, newUsers>>

\* mutant: save() of a replaced array is sent without the version condition
VersionNeverChecked(id, v) == TRUE

\* save() of a replaced array carries the version the document was loaded with;
\* the store applies it only to a document that still has that version
VersionMatches(id, v) == carts[id].v = v

\* checkout: userCart.cartItems = []; await userCart.save(); return userCart
CheckoutSaveCart(s) ==
  /\ req[s].pc = "saveCart"
  /\ LET id == req[s].userCart.id IN
     IF VersionMatches(id, req[s].userCart.v)
     THEN /\ carts' = [carts EXCEPT ![id].cartItems = <<>>, ![id].v = @ + 1]
          /\ req' = Step(s, [Done(s, "ok") EXCEPT
                               !.userCart.cartItems = <<>>, !.wroteCart = TRUE])
     ELSE /\ carts' = carts
          /\ req' = Step(s, [Done(s, "VersionError") EXCEPT
                               !.userCart.cartItems = <<>>])
  /\ UNCHANGED <<users, inflight, nCalls, added, newUsers>>

\* a save() that was not awaited reaches the store; a rejected one is lost, no
\* caller waits for it
Land(w) ==
  /\ BagIn(w, inflight)
  /\ inflight' = inflight (-) SetToBag({w})
  /\ carts' =
       CASE w.kind = "push" ->
              [carts EXCEPT ![w.id].cartItems = Append(@, w.item), ![w.id].v = @ + 1]
         [] w.kind = "setQuantity" /\ carts[w.id].v = w.v ->
              [carts EXCEPT ![w.id].cartItems[w.index].quantity = w.item.quantity]
         [] w.kind = "setArray" /\ carts[w.id].v = w.v ->
              [carts EXCEPT ![w.id].cartItems = w.cartItems, ![w.id].v = @ + 1]
         [] OTHER -> carts
  /\ req' = [t \in Slots |-> IF req[t].pc # "idle"
                             THEN [req[t] EXCEPT !.solo = FALSE] ELSE req[t]]
  /\ UNCHANGED <<users, nCalls, added, newUsers>>

Next ==
  \/ \E s \in Slots :
       \/ Start(s)
       \/ GetCartByUser(s)
       \/ AddFindCart(s)
       \/ AddCreateCart(s)
       \/ AddSaveNewCart(s)
       \/ AddFindProduct(s)
       \/ UpdateFindCart(s)
       \/ UpdateFindProduct(s)
       \/ DeleteProductFromCart(s)
       \/ CheckoutFindCart(s)
       \/ CheckoutSaveUser(s)
       \/ CheckoutSaveCart(s)
  \/ \E w \in BagToSet(inflight) : Land(w)

Spec == Init /\ [][Next]_vars

\* ---------------------------------------------------- a store that can fail
\* checkout: await user.save() rejects; nothing is written
FailCheckoutSaveUser(s) ==
  /\ req[s].pc = "saveUser"
  /\ req' = Step(s, Done(s, "StoreError"))
  /\ UNCHANGED <<users, carts, inflight, nCalls, added, newUsers>>

\* checkout: await userCart.save() rejects after user.save() was written
FailCheckoutSaveCart(s) ==
  /\ req[s].pc = "saveCart"
  /\ req' = Step(s, [Done(s, "StoreError") EXCEPT !.userCart.cartItems = <<>>])
  /\ UNCHANGED <<users, carts, inflight, nCalls, added, newUsers>>

\* addProductToCart: Cart.create or the save after it rejects; the catch turns it
\* into the 500
FailAddCreateCart(s) ==
  /\ req[s].pc \in {"createCart", "saveNewCart"}
  /\ req' = Step(s, Done(s, "CreateFailed"))
  /\ UNCHANGED <<users, carts, inflight, nCalls, added, newUsers>>

\* a save() that was not awaited fails in the store: the write is lost
LoseSave(w) ==
  /\ BagIn(w, inflight)
  /\ inflight' = inflight (-) SetToBag({w})
  /\ req' = [t \in Slots |-> IF req[t].pc # "idle"
                             THEN [req[t] EXCEPT !.solo = FALSE] ELSE req[t]]
  /\ UNCHANGED <<users, carts, nCalls, added, newUsers>>

FaultNext ==
  \/ Next
  \/ \E s \in Slots :
       \/ FailCheckoutSaveUser(s)
       \/ FailCheckoutSaveCart(s)
       \/ FailAddCreateCart(s)
  \/ \E w \in BagToSet(inflight) : LoseSave(w)

FaultSpec == Init /\ [][FaultNext]_vars

\* ------------------------------------------------- a store with a cart in it
\* the cart of u1 after one addProductToCart(u1, A, 1) has been stored
StockedCart ==
  [email |-> "u1",
   cartItems |-> <<[product |-> ProductFindById("A"), quantity |-> 1]>>,
   v |-> 1]

\* the collections before the first call, or after a first add of an earlier
\* session has been stored
InitStocked ==
  /\ users \in [Emails -> [walletMoney : InitWallets, address : Addresses]]
  /\ \/ carts = <<>> /\ added = [e \in Emails |-> NoneAdded]
     \/ carts = <<StockedCart>>
        /\ added = [e \in Emails |-> IF e = "u1" THEN [NoneAdded EXCEPT !["A"] = 1]
                                      ELSE NoneAdded]
  /\ req = [s \in Slots |-> IdleReq]
  /\ inflight = EmptyBag
  /\ nCalls = 0
  /\ newUsers = <<>>

StockedSpec == InitStocked /\ [][Next]_vars

\* ------------------------------------------------------------ createUser
\* User.isEmailTaken(email), a static of the User model: some user has the email
isEmailTaken(email) ==
  \/ email \in DOMAIN users
  \/ \E i \in 1..Len(newUsers) : newUsers[i].email = email

\* mutant: User.email has no unique index
UserEmailNeverIndexed(email) == FALSE

\* the unique index on User.email: User.create is rejected for a taken email
UserEmailIndexed(email) ==
  \/ email \in DOMAIN users
  \/ \E i \in 1..Len(newUsers) : newUsers[i].email = email

\* mutant: createUser creates without looking at isExist
NeverRejected(isExist) == FALSE

\* if(isExist) throw new ApiError(httpStatus.OK, "Email already taken")
EmailAlreadyTaken(isExist) == isExist

\* a caller calls createUser(user)
StartCreateUser(s) ==
  /\ ~Running(s)
  /\ \A t \in Slots : t < s => Running(t)
  /\ nCalls < MaxCalls
  /\ \E e \in SignupEmails :
       req' = Step(s, [IdleReq EXCEPT !.pc = "isEmailTaken", !.op = "createUser",
                                      !.email = e])
  /\ nCalls' = nCalls + 1
  /\ UNCHANGED <<users, carts, inflight, newUsers, added>>

\* createUser: await User.isEmailTaken(user.email), and the throw when it is
CreateUserIsEmailTaken(s) ==
  /\ req[s].pc = "isEmailTaken"
  /\ LET isExist == isEmailTaken(req[s].email) IN
       req' = Step(s, IF EmailAlreadyTaken(isExist)
                      THEN [Done(s, "EmailAlreadyTaken") EXCEPT !.isExist = isExist]
                      ELSE [req[s] EXCEPT !.pc = "createUser", !.isExist = isExist])
  /\ UNCHANGED <<users, carts, inflight, nCalls, newUsers, added>>

\* createUser: await User.create(user); return newUser
CreateUserCreate(s) ==
  /\ req[s].pc = "createUser"
  /\ IF UserEmailIndexed(req[s].email)
     THEN /\ req' = Step(s, Done(s, "DuplicateKey"))
          /\ newUsers' = newUsers
     ELSE /\ newUsers' = Append(newUsers, [email |-> req[s].email])
          /\ req' = Step(s, [Done(s, "ok") EXCEPT !.wroteUser = TRUE])
  /\ UNCHANGED <<users, carts, inflight, nCalls, added>>

UserNext ==
  \E s \in Slots :
    \/ StartCreateUser(s)
    \/ CreateUserIsEmailTaken(s)
    \/ CreateUserCreate(s)

UserSpec == Init /\ [][UserNext]_vars

\* ================================================================ claims
IsDone(s, op) == req[s].pc = "done" /\ req[s].op = op

\* the cart total of the claims: the sum over the line items of cost x quantity
LineTotal(cartItems) ==
  LET sum[n \in 0..Len(cartItems)] ==
        IF n = 0 THEN 0
        ELSE sum[n - 1] + cartItems[n].product.cost * cartItems[n].quantity
  IN sum[Len(cartItems)]

Line(productId, quantity) ==
  [product |-> ProductFindById(productId), quantity |-> quantity]

\* a checkout whose user has a cart with line items and a real address
Payable(s) ==
  /\ IsDone(s, "checkout")
  /\ req[s].seen.hasCart
  /\ req[s].seen.cartItems # <<>>
  /\ req[s].user.address # default_address

\* the store holds what the request read: balance and line items
StoreAsSeen(s) ==
  /\ users[req[s].email].walletMoney = req[s].seen.walletMoney
  /\ PersistedItems(req[s].email) = req[s].seen.cartItems

\* C1: a checkout that has ended has written the debit if and only if it has
\* written the cleared cart, also when a store write failed.
C1_CheckoutAtomic ==
  \A s \in Slots : IsDone(s, "checkout") => (req[s].wroteUser <=> req[s].wroteCart)

\* C2: a checkout run with nothing interleaved, of a non-empty cart, with an address
\* set and a balance of at least the total, succeeds, returns and leaves the cart
\* without line items, and leaves the balance at oldBalance - total.
C2_CheckoutDebitsAndClears ==
  \A s \in Slots :
    (/\ Payable(s) /\ req[s].solo
     /\ req[s].seen.walletMoney >= LineTotal(req[s].seen.cartItems))
    => /\ req[s].result = "ok"
       /\ req[s].userCart.cartItems = <<>>
       /\ PersistedItems(req[s].email) = <<>>
       /\ users[req[s].email].walletMoney =
            req[s].seen.walletMoney - LineTotal(req[s].seen.cartItems)

\* C2 witness: the scenario A (100) x 2 and B (50) x 1, wallet 300 -> 50, items []
C2_Witness ==
  \E s \in Slots :
    /\ Payable(s) /\ req[s].solo /\ req[s].result = "ok"
    /\ req[s].seen.walletMoney = 300
    /\ req[s].seen.cartItems = <<Line("A", 2), Line("B", 1)>>
    /\ users[req[s].email].walletMoney = 50
    /\ PersistedItems(req[s].email) = <<>>

\* C3: a checkout of a non-empty cart, with an address set and a balance below the
\* total, fails with InsufficientBalance (400) and writes nothing: balance and line
\* items in the store are as before.
C3_InsufficientBalanceRejected ==
  \A s \in Slots :
    (Payable(s) /\ req[s].seen.walletMoney < LineTotal(req[s].seen.cartItems))
    => /\ req[s].result = "InsufficientBalance"
       /\ StatusOf(req[s].result) = 400
       /\ ~req[s].wroteUser /\ ~req[s].wroteCart
       /\ req[s].solo => StoreAsSeen(s)

\* C3 witness: the scenario A x 2 and B x 1 (250) with wallet 200
C3_Witness ==
  \E s \in Slots :
    /\ Payable(s) /\ req[s].solo /\ req[s].result = "InsufficientBalance"
    /\ req[s].seen.walletMoney = 200
    /\ req[s].seen.cartItems = <<Line("A", 2), Line("B", 1)>>
    /\ StoreAsSeen(s)

\* C4: a checkout whose balance equals the total passes the balance check; run with
\* nothing interleaved it succeeds and leaves the balance at 0 and the cart empty.
C4_BalanceEqualTotalSucceeds ==
  \A s \in Slots :
    (Payable(s) /\ req[s].seen.walletMoney = LineTotal(req[s].seen.cartItems))
    => /\ req[s].result # "InsufficientBalance"
       /\ req[s].solo => /\ req[s].result = "ok"
                         /\ users[req[s].email].walletMoney = 0
                         /\ PersistedItems(req[s].email) = <<>>
                         /\ req[s].userCart.cartItems = <<>>

\* C4 witness: wallet 200 pays A x 2 to the last unit
C4_Witness ==
  \E s \in Slots :
    /\ Payable(s) /\ req[s].solo /\ req[s].result = "ok"
    /\ req[s].seen.walletMoney = 200
    /\ LineTotal(req[s].seen.cartItems) = 200
    /\ users[req[s].email].walletMoney = 0

\* C5: a checkout of a cart that exists and has no line items fails with EmptyCart
\* (400), whatever the address and the balance, and does not write the balance.
C5_EmptyCartRejected ==
  \A s \in Slots :
    (IsDone(s, "checkout") /\ req[s].seen.hasCart /\ req[s].seen.cartItems = <<>>)
    => /\ req[s].result = "EmptyCart"
       /\ StatusOf(req[s].result) = 400
       /\ ~req[s].wroteUser
       /\ req[s].solo => users[req[s].email].walletMoney = req[s].seen.walletMoney

\* C5 witness: an empty cart, an address set and money in the wallet
C5_Witness ==
  \E s \in Slots :
    /\ IsDone(s, "checkout") /\ req[s].seen.hasCart /\ req[s].seen.cartItems = <<>>
    /\ req[s].user.address # default_address /\ req[s].seen.walletMoney > 0
    /\ req[s].result = "EmptyCart" /\ req[s].solo

\* C6: a checkout of a user whose address is the default sentinel fails, with
\* NoAddress when the cart exists and has line items, and writes neither the balance
\* nor the cart.
C6_DefaultAddressRejected ==
  \A s \in Slots :
    (IsDone(s, "checkout") /\ req[s].user.address = default_address)
    => /\ req[s].result \in {"NoCart404", "EmptyCart", "NoAddress"}
       /\ (req[s].seen.hasCart /\ req[s].seen.cartItems # <<>>)
            => req[s].result = "NoAddress"
       /\ ~req[s].wroteUser /\ ~req[s].wroteCart
       /\ req[s].solo => StoreAsSeen(s)

\* C6 witness: the default address, a cart with line items and enough money
C6_Witness ==
  \E s \in Slots :
    /\ IsDone(s, "checkout") /\ req[s].user.address = default_address
    /\ req[s].seen.cartItems # <<>>
    /\ req[s].seen.walletMoney >= LineTotal(req[s].seen.cartItems)
    /\ req[s].result = "NoAddress" /\ req[s].solo

\* the line items of product productId in the cart the store holds for email
LinesOf(email, productId) ==
  {k \in 1..Len(PersistedItems(email)) :
     PersistedItems(email)[k].product._id = productId}

\* C7: an addProductToCart of a product whose earlier add has returned successfully,
\* with no delete, update or checkout call of the user since, fails with
\* AlreadyInCart, and the cart holds one line item of the product, with the
\* quantity of the first add.
C7_DuplicateAddRejected ==
  \A s \in Slots :
    (IsDone(s, "add") /\ req[s].prior > 0)
    => /\ req[s].result = "AlreadyInCart"
       /\ (req[s].solo /\ inflight = EmptyBag)
            => \E k \in 1..Len(PersistedItems(req[s].email)) :
                 /\ LinesOf(req[s].email, req[s].productId) = {k}
                 /\ PersistedItems(req[s].email)[k].quantity = req[s].prior

\* C8: every cart in the store holds at most one line item per product.
C8_OneLinePerProduct ==
  \A i \in 1..Len(carts), p \in ProductIds :
    Cardinality({k \in 1..Len(carts[i].cartItems) :
                   carts[i].cartItems[k].product._id = p}) <= 1

C10_UnknownProduct400 ==
  \A s \in Slots :
    (IsDone(s, "add") /\ ProductFindById(req[s].productId) = NoProduct)
    => /\ StatusOf(req[s].result) = 400
       /\ ~req[s].wroteCart

\* C10 amended: an addProductToCart of a product id that is not in the catalog
\* fails with ProductNotFound (400), or with CreateFailed (500) when the user had
\* no cart and creating it failed; it adds no line item.
C10_UnknownProductRejected ==
  \A s \in Slots :
    (IsDone(s, "add") /\ req[s].productId \notin {p._id : p \in Catalog})
    => /\ req[s].result \in {"ProductNotFound", "CreateFailed"}
       /\ req[s].result = "CreateFailed" => ~req[s].seen.hasCart
       /\ ~req[s].wroteCart
       /\ req[s].userCart.cartItems = req[s].seen.cartItems
       /\ req[s].solo => PersistedItems(req[s].email) = req[s].seen.cartItems

\* C10 witness: the unknown product is refused with no cart (one is created, and
\* stays empty) and with a cart that has line items
C10_Witness ==
  \E s \in Slots :
    /\ IsDone(s, "add") /\ req[s].productId = "X"
    /\ req[s].result = "ProductNotFound" /\ StatusOf(req[s].result) = 400
    /\ req[s].seen.cartItems # <<>>
    /\ req[s].solo /\ PersistedItems(req[s].email) = req[s].seen.cartItems

\* the first line item of productId in cartItems, 0 when there is none
FirstLine(cartItems, productId) ==
  IF \E k \in 1..Len(cartItems) : cartItems[k].product._id = productId
  THEN CHOOSE k \in 1..Len(cartItems) :
         /\ cartItems[k].product._id = productId
         /\ \A j \in 1..(k - 1) : cartItems[j].product._id # productId
  ELSE 0

InCatalog(productId) == \E p \in Catalog : p._id = productId

\* a call that failed with a 400 has written nothing, and with nothing interleaved
\* the store holds the cart the call read
Rejected400(s) ==
  /\ StatusOf(req[s].result) = 400
  /\ ~req[s].wroteUser /\ ~req[s].wroteCart
  /\ req[s].solo => PersistedItems(req[s].email) = req[s].seen.cartItems

\* after is before with the quantity of line k set to quantity, nothing else changed
OnlyQuantityChanged(before, after, k, quantity) ==
  /\ Len(after) = Len(before)
  /\ \A j \in 1..Len(before) :
       /\ after[j].product = before[j].product
       /\ after[j].quantity = IF j = k THEN quantity ELSE before[j].quantity

\* C11, the calls: updateProductInCart fails with NoCart, else ProductNotFound, else
\* NotInCart, and then writes nothing; otherwise the cart it returns and the write it
\* sends change the quantity of that line item and nothing else.
C11_UpdateCalls ==
  \A s \in Slots :
    IsDone(s, "update") =>
      LET r == req[s]
          k == FirstLine(r.seen.cartItems, r.productId)
      IN /\ r.result = IF ~r.seen.hasCart THEN "NoCart400"
                       ELSE IF ~InCatalog(r.productId) THEN "ProductNotFound"
                       ELSE IF k = 0 THEN "NotInCart"
                       ELSE "ok"
         /\ r.result # "ok" => Rejected400(s)
         /\ r.result = "ok" =>
              /\ OnlyQuantityChanged(r.seen.cartItems, r.userCart.cartItems, k, r.quantity)
              /\ r.solo => \E w \in BagToSet(inflight) :
                             /\ w.kind = "setQuantity" /\ w.id = r.userCart.id
                             /\ w.index = k /\ w.item.quantity = r.quantity

\* C11, the store: when the write of an update reaches the store, the stored cart
\* changes in the quantity of that line item or not at all.
C11_UpdateLands ==
  \A w \in BagToSet(inflight) :
    (w.kind = "setQuantity" /\ inflight' = inflight (-) SetToBag({w}))
    => \/ carts' = carts
       \/ /\ carts[w.id].cartItems[w.index].product = w.item.product
          /\ carts' = [carts EXCEPT ![w.id].cartItems[w.index].quantity = w.item.quantity]

\* C11: updateProductInCart fails in the order NoCart, ProductNotFound, NotInCart
\* and leaves the cart unmodified in each failing case; otherwise it overwrites only
\* that line item's quantity.
C11_UpdateOnlyQuantity == []C11_UpdateCalls /\ [][C11_UpdateLands]_vars

\* C11 witness: the second of two line items got a new quantity
C11_Witness ==
  \E s \in Slots :
    /\ IsDone(s, "update") /\ req[s].result = "ok" /\ req[s].solo
    /\ req[s].seen.cartItems = <<Line("A", 1), Line("B", 1)>>
    /\ req[s].userCart.cartItems = <<Line("A", 1), Line("B", 2)>>

\* cartItems without its line k, the others in their order
WithoutLine(cartItems, k) ==
  SubSeq(cartItems, 1, k - 1) \o SubSeq(cartItems, k + 1, Len(cartItems))

\* C12, the calls: deleteProductFromCart fails with NoCart, else NotInCart, and then
\* writes nothing; otherwise the cart it returns and the write it sends are the cart
\* it read without the line item of that product.
C12_DeleteCalls ==
  \A s \in Slots :
    IsDone(s, "delete") =>
      LET r == req[s]
          k == FirstLine(r.seen.cartItems, r.productId)
      IN /\ r.result = IF ~r.seen.hasCart THEN "NoCart400"
                       ELSE IF k = 0 THEN "NotInCart"
                       ELSE "ok"
         /\ r.result # "ok" => Rejected400(s)
         /\ r.result = "ok" =>
              /\ r.userCart.cartItems = WithoutLine(r.seen.cartItems, k)
              /\ r.solo => \E w \in BagToSet(inflight) :
                             /\ w.kind = "setArray" /\ w.id = r.userCart.id
                             /\ w.cartItems = WithoutLine(r.seen.cartItems, k)
                             /\ PersistedItems(r.email) = r.seen.cartItems
                             /\ w.v = carts[w.id].v

\* C12, the store: when the write of a delete reaches the store, the stored cart
\* becomes the cart the call returned, or does not change.
C12_DeleteLands ==
  \A w \in BagToSet(inflight) :
    (w.kind = "setArray" /\ inflight' = inflight (-) SetToBag({w}))
    => \/ carts' = carts
       \/ /\ carts[w.id].v = w.v
          /\ Len(w.cartItems) = Len(carts[w.id].cartItems) - 1
          /\ carts' = [carts EXCEPT ![w.id].cartItems = w.cartItems,
                                    ![w.id].v = carts[w.id].v + 1]

\* C12: deleteProductFromCart fails with NoCart (400) or NotInCart (400) and leaves
\* the cart unchanged; otherwise it removes the line item of that product and leaves
\* the other line items, their quantities and their order unchanged.
C12_DeleteOnlyThatLine == []C12_DeleteCalls /\ [][C12_DeleteLands]_vars

\* C12 witness: the first of two line items was removed
C12_Witness ==
  \E s \in Slots :
    /\ IsDone(s, "delete") /\ req[s].result = "ok" /\ req[s].solo
    /\ req[s].seen.cartItems = <<Line("A", 1), Line("B", 2)>>
    /\ req[s].userCart.cartItems = <<Line("B", 2)>>

\* the store holds a cart of this email
StoreHasCart(email) == \E i \in 1..Len(carts) : carts[i].email = email

\* C13, the calls: getCartByUser fails with the 404 when the user has no cart and
\* returns the stored cart when there is one.
C13_GetCartCalls ==
  \A s \in Slots :
    IsDone(s, "getCart") =>
      LET r == req[s] IN
      /\ r.result = IF r.seen.hasCart THEN "ok" ELSE "NoCart404"
      /\ r.result = "NoCart404" => StatusOf(r.result) = 404
      /\ r.result = "ok" => r.userCart.cartItems = r.seen.cartItems
      /\ ~r.wroteUser /\ ~r.wroteCart
      /\ r.solo => /\ r.result = "ok" <=> StoreHasCart(r.email)
                   /\ r.result = "ok" =>
                        \E i \in 1..Len(carts) :
                          /\ carts[i].email = r.email
                          /\ carts[i].cartItems = r.userCart.cartItems
                   /\ users[r.email].walletMoney = r.seen.walletMoney

\* C13, the store: the step of getCartByUser changes no collection and sends no write.
C13_GetCartReadsOnly ==
  \A s \in Slots :
    (req[s].op = "getCart" /\ req[s].pc = "findCart" /\ req'[s].pc = "done")
    => UNCHANGED <<users, carts, inflight>>

\* C13: getCartByUser fails with NotFound (404) for a user with no cart, returns the
\* cart of a user who has one, and changes nothing in the store.
C13_GetCart == []C13_GetCartCalls /\ [][C13_GetCartReadsOnly]_vars

\* C13 witness: the cart of the user, with its line item, is returned
C13_Witness ==
  \E s \in Slots :
    /\ IsDone(s, "getCart") /\ req[s].result = "ok" /\ req[s].solo
    /\ req[s].userCart.cartItems = <<Line("A", 2)>>
    /\ PersistedItems(req[s].email) = <<Line("A", 2)>>

\* the user records of an email, those registered from the start and those created
RecordsOf(email) ==
  (IF email \in Emails THEN 1 ELSE 0)
  + Cardinality({i \in 1..Len(newUsers) : newUsers[i].email = email})

C15_WalletNonNegative ==
  /\ \A e \in Emails : users[e].walletMoney >= 0
  /\ \A s \in Slots :
       req[s].pc = "saveUser" => req[s].user.walletMoney >= 0

\* C15 witness: a checkout has paid a total equal to the wallet it read,
\* leaving 0
C15_Witness ==
  \E s \in Slots :
    /\ IsDone(s, "checkout") /\ req[s].wroteUser
    /\ req[s].seen.walletMoney = TotalCost(req[s].seen.cartItems)
    /\ users[req[s].email].walletMoney = 0

\* two checkout calls of one user that both read the same wallet and the same
\* non-empty cart (so neither had written when the other read) and both passed
\* the balance check
Race(s, t) ==
  /\ s # t
  /\ req[s].op = "checkout" /\ req[t].op = "checkout"
  /\ req[s].email = req[t].email
  /\ req[s].pc \in {"saveUser", "saveCart", "done"}
  /\ req[t].pc \in {"saveUser", "saveCart", "done"}
  /\ req[s].result \in {"none", "ok", "VersionError"}
  /\ req[t].result \in {"none", "ok", "VersionError"}
  /\ req[s].seen = req[t].seen
  /\ req[s].seen.cartItems # <<>>

RaceOver(s, t) == Race(s, t) /\ req[s].pc = "done" /\ req[t].pc = "done"

DebitedOnce(s) ==
  users[req[s].email].walletMoney =
    req[s].seen.walletMoney - TotalCost(req[s].seen.cartItems)

C17_PersistedBeforeReturn ==
  \A s \in Slots :
    (/\ req[s].pc = "done" /\ req[s].op \in {"add", "update", "delete"}
     /\ req[s].result = "ok" /\ req[s].solo) =>
      PersistedItems(req[s].email) = req[s].userCart.cartItems

\* a returned addProductToCart of a catalog product that was not a line item of
\* the cart the call read
AddOfNew(s) ==
  /\ IsDone(s, "add")
  /\ InCatalog(req[s].productId)
  /\ ~ItemExists(req[s].seen.cartItems, req[s].productId)

Appended(s) ==
  req[s].userCart.cartItems =
    Append(req[s].seen.cartItems, Line(req[s].productId, req[s].quantity))

\* C18 as stated: for every cart state, addProductToCart of a catalog product that
\* is not in the cart succeeds and appends the line item (p, q) at the end.
C18_AddSucceeds ==
  \A s \in Slots : AddOfNew(s) => req[s].result = "ok" /\ Appended(s)

\* C18, the calls: the length guard rejects no addProductToCart; one of a catalog
\* product that is not in the cart fails only when it found no cart and could not
\* create one, which needs another call in between, and then writes nothing;
\* otherwise it returns the cart it read with the line item (p, q) appended at
\* the end and sends that line item to the store.
C18_AddCalls ==
  \A s \in Slots :
    /\ IsDone(s, "add") => req[s].result # "BadRequest"
    /\ AddOfNew(s) =>
         /\ req[s].result \in {"ok", "CreateFailed"}
         /\ req[s].result = "CreateFailed" =>
              ~req[s].seen.hasCart /\ ~req[s].solo /\ ~req[s].wroteCart
         /\ req[s].result = "ok" =>
              /\ Appended(s)
              /\ req[s].solo =>
                   \E w \in BagToSet(inflight) :
                     /\ w.kind = "push" /\ w.id = req[s].userCart.id
                     /\ w.item = Line(req[s].productId, req[s].quantity)

\* C18, the store: when the write of an add reaches the store, the stored cart
\* gets that line item at its end, its other line items and every other cart
\* stay as they were.
C18_AddLands ==
  \A w \in BagToSet(inflight) :
    (w.kind = "push" /\ inflight' = inflight (-) SetToBag({w}))
    => /\ Len(carts') = Len(carts)
       /\ \A i \in 1..Len(carts) :
            carts'[i].cartItems = IF i = w.id THEN Append(carts[i].cartItems, w.item)
                                  ELSE carts[i].cartItems

\* C18: addProductToCart of a catalog product that is not in the cart appends
\* exactly the line item (p, q) at the end, for no cart, an empty and a non-empty
\* cart, unless creating the cart fails; the length guard never rejects.
C18_AddAppends == []C18_AddCalls /\ [][C18_AddLands]_vars

\* C18 witness: an add to a non-empty cart returned it with the new line at the end
C18_Witness ==
  \E s \in Slots :
    /\ AddOfNew(s) /\ req[s].result = "ok" /\ req[s].solo
    /\ req[s].seen.cartItems = <<Line("A", 1)>>
    /\ req[s].userCart.cartItems = <<Line("A", 1), Line("B", 2)>>

\* C19, the states: a checkout that returned success returned the stored cart of the
\* user with no line items, and with no other call since it started that cart is
\* stored empty.
C19_CheckoutKeepsCart ==
  \A s \in Slots :
    (IsDone(s, "checkout") /\ req[s].result = "ok") =>
      /\ StoreHasCart(req[s].email)
      /\ req[s].userCart.id = CartFindOne(req[s].email)
      /\ req[s].userCart.cartItems = <<>>
      /\ req[s].solo => PersistedItems(req[s].email) = <<>>

\* C19, the steps: no step removes a cart or changes the email of one; a
\* getCartByUser or addProductToCart that looks for the cart of an email that has
\* one finds it: neither the 404 nor the creation of a second cart follows.
C19_CartStays ==
  /\ Len(carts') >= Len(carts)
  /\ \A i \in 1..Len(carts) : carts'[i].email = carts[i].email
  /\ \A s \in Slots :
       (/\ req[s].pc = "findCart" /\ req'[s].pc # "findCart"
        /\ req[s].op \in {"getCart", "add"}
        /\ StoreHasCart(req[s].email)) =>
         /\ req'[s].result # "NoCart404"
         /\ req'[s].pc # "createCart"
         /\ req'[s].seen.hasCart
         /\ req'[s].userCart.id = CartFindOne(req[s].email)

\* C19: a cart, once it exists, exists in every later state; a successful checkout
\* leaves it present and empty, a getCartByUser after it succeeds and an
\* addProductToCart after it uses the same cart.
C19_CartNeverDeleted == []C19_CheckoutKeepsCart /\ [][C19_CartStays]_vars

\* C19 witness: an add, after an add and a checkout, found the one cart of the user
\* empty and added to it
C19_Witness ==
  \E s \in Slots :
    /\ IsDone(s, "add") /\ req[s].result = "ok"
    /\ req[s].seen.hasCart /\ req[s].seen.cartItems = <<>>
    /\ req[s].userCart.v = 2 /\ req[s].userCart.id = 1
    /\ Len(carts) = 1

\* C20: no step increases the stored wallet of a user, whatever calls interleave.
C20_WalletStep == \A e \in Emails : users'[e].walletMoney <= users[e].walletMoney

C20_WalletNeverIncreases == [][C20_WalletStep]_vars

====
